---- MODULE Spec2Model ----
(***************************************************************************)
(* Model of src/app.py: the Dash application "RC-Kreis Visualisierung".    *)
(* The state is the four parameter widgets of app.layout and the result    *)
(* of the latest run of the callback update_graphs.                        *)
(*                                                                         *)
(* Arithmetic.  Python floats are modelled by exact rationals [n, d] in    *)
(* lowest terms.  A value that involves np.exp is kept in the closed form  *)
(* a + b * exp(-x) with a, b, x rational (an "EV" record), in a canonical  *)
(* form in which two records are equal exactly when the real numbers are   *)
(* equal.  binary64 rounding is not modelled, with one exception: np.exp   *)
(* returns 0.0 once its argument is below about -745.13 (underflow), and   *)
(* ExpNeg does the same.  Division of an array by tau = 0.0 gives nan at   *)
(* t = 0 and -inf elsewhere, as numpy does.                                *)
(***************************************************************************)
EXTENDS Integers, Sequences, FiniteSets, TLC

VARIABLES R_slider, C_slider, U0_slider, mode_toggle, args, out, first, later

vars == <<R_slider, C_slider, U0_slider, mode_toggle, args, out, first, later>>

(***************************************************************************)
(* Rationals                                                               *)
(***************************************************************************)
Abs(k) == IF k < 0 THEN -k ELSE k

RECURSIVE GCD(_, _)
GCD(a, b) == IF b = 0 THEN a ELSE GCD(b, a % b)

\* the rational n/d (d # 0) in lowest terms with a positive denominator
Rat(n, d) ==
    LET g == GCD(Abs(n), Abs(d))
        s == IF d < 0 THEN -1 ELSE 1
    IN  [n |-> s * (n \div g), d |-> s * (d \div g)]

RInt(k) == [n |-> k, d |-> 1]

RZero == RInt(0)

ROne == RInt(1)

RNeg(p) == [n |-> -p.n, d |-> p.d]

RAdd(p, q) ==
    LET g == GCD(p.d, q.d)
    IN  Rat(p.n * (q.d \div g) + q.n * (p.d \div g), (p.d \div g) * q.d)

RSub(p, q) == RAdd(p, RNeg(q))

\* cross-cancelled before multiplying, to keep the products small
RMul(p, q) ==
    LET g1 == GCD(Abs(p.n), q.d)
        g2 == GCD(Abs(q.n), p.d)
    IN  IF p.n = 0 \/ q.n = 0 THEN RZero
        ELSE [n |-> (p.n \div g1) * (q.n \div g2), d |-> (p.d \div g2) * (q.d \div g1)]

\* q # 0
RDiv(p, q) == RMul(p, Rat(q.d, q.n))

RLt(p, q) ==
    LET g == GCD(p.d, q.d)
    IN  p.n * (q.d \div g) < q.n * (p.d \div g)

RLe(p, q) == p = q \/ RLt(p, q)

\* Python's max(a, b): b only if b > a
RMax(p, q) == IF RLt(p, q) THEN q ELSE p

\* round to the nearest integer, ties to even, as Python's float formatting
RoundHalfEven(p) ==
    LET q == p.n \div p.d
        r == p.n % p.d
    IN  IF 2 * r < p.d THEN q
        ELSE IF 2 * r > p.d THEN q + 1
        ELSE IF q % 2 = 0 THEN q ELSE q + 1

RECURSIVE Pow10(_)
Pow10(k) == IF k = 0 THEN 1 ELSE 10 * Pow10(k - 1)

\* f"{p:.kf}": p rounded to k decimals, as the integer p * 10^k
Fmt(p, k) == RoundHalfEven(RMul(p, RInt(Pow10(k))))

(***************************************************************************)
(* Values a + b * exp(-x)                                                  *)
(***************************************************************************)
NaN == [nan |-> TRUE, a |-> RZero, b |-> RZero, x |-> RZero]

\* canonical form: no exponential part when b = 0, and exp(-0) = 1 folded in
EV(a, b, x) ==
    IF b = RZero THEN [nan |-> FALSE, a |-> a, b |-> RZero, x |-> RZero]
    ELSE IF x = RZero THEN [nan |-> FALSE, a |-> RAdd(a, b), b |-> RZero, x |-> RZero]
    ELSE [nan |-> FALSE, a |-> a, b |-> b, x |-> x]

EVConst(a) == EV(a, RZero, RZero)

\* k * v for a rational k
EVScale(k, v) == IF v.nan THEN NaN ELSE EV(RMul(k, v.a), RMul(k, v.b), v.x)

\* 1 - v
EVOneMinus(v) == IF v.nan THEN NaN ELSE EV(RSub(ROne, v.a), RNeg(v.b), v.x)

\* exp(-x) lies strictly between 0 and 1 for x > 0: the bounds of a value
EVLo(v) == IF RLt(v.b, RZero) THEN RAdd(v.a, v.b) ELSE v.a

EVHi(v) == IF RLt(v.b, RZero) THEN v.a ELSE RAdd(v.a, v.b)

\* v < w.  Decided for two values with the same a and b (by their exponents)
\* and for two values whose ranges do not overlap; nan compares false.
EVLt(v, w) ==
    CASE v.nan \/ w.nan -> FALSE
      [] v = w -> FALSE
      [] v.b # RZero /\ v.a = w.a /\ v.b = w.b ->
            IF RLt(RZero, v.b) THEN RLt(w.x, v.x) ELSE RLt(v.x, w.x)
      [] RLe(EVHi(v), EVLo(w)) -> TRUE
      [] RLe(EVHi(w), EVLo(v)) -> FALSE

(***************************************************************************)
(* numpy                                                                   *)
(***************************************************************************)
N == 500

\* an array holds its elements: each is computed once, when the array is made
ndarray(s) == s \o <<>>

\* endpoint=False: num steps, the stop value not among the points
linspaceNoEndpoint(start, stop, num) ==
    LET step == RDiv(RSub(stop, start), RInt(num))
    IN  ndarray([i \in 1..num |-> RAdd(RMul(RInt(i - 1), step), start)])

\* np.linspace(start, stop, num): arange(num) * step + start with
\* step = (stop - start) / (num - 1), the last point set to stop
linspace(start, stop, num) ==
    LET step == RDiv(RSub(stop, start), RInt(num - 1))
    IN  ndarray([i \in 1..num |->
            IF i = num THEN stop ELSE RAdd(RMul(RInt(i - 1), step), start)])

\* the argument of np.exp in -t / tau, for t >= 0 and tau >= 0: the quotient
\* q = t / tau (the argument is -q); with tau = 0.0 numpy gives nan for
\* -0.0 / 0.0 and -inf for -t / 0.0
NegDiv(ti, tau) ==
    IF tau = RZero
    THEN IF ti = RZero THEN [kind |-> "nan", q |-> RZero] ELSE [kind |-> "ninf", q |-> RZero]
    ELSE [kind |-> "fin", q |-> RDiv(ti, tau)]

\* np.exp(-q) is 0.0 in binary64 once q > 745.13 (below 2^-1075)
ExpUnderflow == Rat(74513, 100)

\* np.exp of the argument NegDiv gives
ExpNeg(y) ==
    CASE y.kind = "nan" -> NaN
      [] y.kind = "ninf" -> EVConst(RZero)
      [] y.kind = "fin" ->
            IF RLt(ExpUnderflow, y.q) THEN EVConst(RZero) ELSE EV(RZero, ROne, y.q)

\* Python's max(seq) and np.max(seq): the first element, replaced in turn by
\* each later element that compares greater; nothing compares greater than
\* nan, so a nan stays.  The scan
\* of s[i..j] starting from m, and the whole scan in runs of 25 elements.
RECURSIVE MaxFrom(_, _, _, _)
MaxFrom(s, i, j, m) ==
    IF i > j \/ m.nan THEN m
    ELSE MaxFrom(s, i + 1, j, IF EVLt(m, s[i]) THEN s[i] ELSE m)

RECURSIVE MaxRuns(_, _, _)
MaxRuns(s, i, m) ==
    IF i > Len(s) \/ m.nan THEN m
    ELSE MaxRuns(s, i + 25, MaxFrom(s, i, IF i + 24 < Len(s) THEN i + 24 ELSE Len(s), m))

Max(s) == MaxRuns(s, 2, s[1])

RECURSIVE MinFrom(_, _, _, _)
MinFrom(s, i, j, m) ==
    IF i > j \/ m.nan THEN m
    ELSE MinFrom(s, i + 1, j, IF EVLt(s[i], m) THEN s[i] ELSE m)

RECURSIVE MinRuns(_, _, _)
MinRuns(s, i, m) ==
    IF i > Len(s) \/ m.nan THEN m
    ELSE MinRuns(s, i + 25, MinFrom(s, i, IF i + 24 < Len(s) THEN i + 24 ELSE Len(s), m))

\* np.min(seq)
Min(s) == MinRuns(s, 2, s[1])

(***************************************************************************)
(* update_graphs                                                           *)
(***************************************************************************)
\* an integer division in place of the factor 1e-6
FaradFloorDiv(C_micro_f) == RInt(C_micro_f \div 1000000)

\* C = C_micro_f * 1e-6
Farad(C_micro_f) == RMul(RInt(C_micro_f), Rat(1, 1000000))

\* tau = R_ohm * C
Tau(R_ohm, C) == RMul(RInt(R_ohm), C)

\* the floor 0.01 of t_max
Epsilon == Rat(1, 100)

\* min in place of max
TMaxMin(tau) ==
    IF RLt(RMul(RInt(5), tau), Epsilon) THEN RMul(RInt(5), tau) ELSE Epsilon

\* the window of the previous run kept when it was longer
TMaxSticky(tau) ==
    LET now == RMax(RMul(RInt(5), tau), Epsilon)
    IN  IF out.raised = "none" THEN RMax(now, out.t_max) ELSE now

\* one time constant in place of five
TMaxOneTau(tau) == RMax(tau, Epsilon)

\* t_max = max(5 * tau, 0.01)
TMax(tau) == RMax(RMul(RInt(5), tau), Epsilon)

\* np.exp(-t / tau), elementwise
ExpDecay(t, tau) == ndarray([i \in 1..Len(t) |-> ExpNeg(NegDiv(t[i], tau))])

\* the two branches exchanged
VoltageSwapped(U0, e, mode_is_charge) ==
    IF mode_is_charge
    THEN ndarray([i \in 1..Len(e) |-> EVScale(U0, e[i])])
    ELSE ndarray([i \in 1..Len(e) |-> EVScale(U0, EVOneMinus(e[i]))])

\* Uc of either branch
Voltage(U0, e, mode_is_charge) ==
    IF mode_is_charge
    THEN ndarray([i \in 1..Len(e) |-> EVScale(U0, EVOneMinus(e[i]))])
    ELSE ndarray([i \in 1..Len(e) |-> EVScale(U0, e[i])])

\* the factor C left out of the discharging branch
ChargeNoC(C, U0, Uc, e, mode_is_charge) ==
    IF mode_is_charge
    THEN ndarray([i \in 1..Len(Uc) |-> EVScale(C, Uc[i])])
    ELSE ndarray([i \in 1..Len(e) |-> EVScale(U0, e[i])])

\* Q of either branch: C * Uc when charging, C * U0 * exp(-t / tau) otherwise
Charge(C, U0, Uc, e, mode_is_charge) ==
    IF mode_is_charge
    THEN ndarray([i \in 1..Len(Uc) |-> EVScale(C, Uc[i])])
    ELSE ndarray([i \in 1..Len(e) |-> EVScale(RMul(C, U0), e[i])])

\* the minus sign of the discharging branch left out
CurrentNoSign(R_ohm, U0, e, mode_is_charge) ==
    LET k == RDiv(U0, RInt(R_ohm))
    IN  ndarray([i \in 1..Len(e) |-> EVScale(k, e[i])])

\* I of either branch; U0 / R_ohm is a Python division, R_ohm # 0 here
Current(R_ohm, U0, e, mode_is_charge) ==
    LET k == RDiv(U0, RInt(R_ohm))
    IN  IF mode_is_charge
        THEN ndarray([i \in 1..Len(e) |-> EVScale(k, e[i])])
        ELSE ndarray([i \in 1..Len(e) |-> EVScale(RNeg(k), e[i])])

\* the f-string of the info box, as its formatted numbers
InfoText(R_ohm, C_micro_f, U0, tau, t_max) ==
    [R |-> Fmt(RInt(R_ohm), 0), C |-> Fmt(RInt(C_micro_f), 0), U0 |-> Fmt(U0, 1),
     tau_ms |-> Fmt(RMul(tau, RInt(1000)), 2),
     t_max_ms |-> Fmt(RMul(t_max, RInt(1000)), 2)]

\* s * k, elementwise (rationals)
TimesR(s, k) == ndarray([i \in 1..Len(s) |-> RMul(s[i], RInt(k))])

\* the conversion left out
TimesNoScale(s, k) == s

\* s * k, elementwise (values)
Times(s, k) == ndarray([i \in 1..Len(s) |-> EVScale(RInt(k), s[i])])

\* one figure: the trace, the dashed line at tau_ms and the annotation
Figure(x, y, tau_ms, annot_y) ==
    [x |-> x, y |-> y, vline |-> tau_ms, annot |-> [x |-> tau_ms, y |-> annot_y]]

\* The callback.  The result is the tuple it returns (fig_u, fig_q, fig_i,
\* info_text, mode_text) together with the locals the figures are built
\* from; with R_ohm = 0 the division U0 / R_ohm raises ZeroDivisionError
\* and nothing is returned.
update_graphs(R_ohm, C_micro_f, U0, mode_is_charge) ==
    LET C == Farad(C_micro_f)
        tau == Tau(R_ohm, C)
        t_max == TMax(tau)
        t == linspace(RZero, t_max, N)
        e == ExpDecay(t, tau)
        Uc == Voltage(U0, e, mode_is_charge)
        Q == Charge(C, U0, Uc, e, mode_is_charge)
        I == Current(R_ohm, U0, e, mode_is_charge)
        t_ms == TimesR(t, 1000)
        tau_ms == RMul(tau, RInt(1000))
        Q_mC == Times(Q, 1000)
        I_mA == Times(I, 1000)
    IN  IF R_ohm = 0
        THEN [raised |-> "ZeroDivisionError"]
        ELSE [raised |-> "none",
              C |-> C, tau |-> tau, t_max |-> t_max, t |-> t,
              Uc |-> Uc, Q |-> Q, I |-> I,
              t_ms |-> t_ms, tau_ms |-> tau_ms,
              fig_u |-> Figure(t_ms, Uc, tau_ms, Max(Uc)),
              fig_q |-> Figure(t_ms, Q_mC, tau_ms, Max(Q_mC)),
              fig_i |-> Figure(t_ms, I_mA, tau_ms,
                               IF mode_is_charge THEN Max(I_mA) ELSE Min(I_mA)),
              info_text |-> InfoText(R_ohm, C_micro_f, U0, tau, t_max),
              mode_text |-> IF mode_is_charge THEN "Modus: Laden" ELSE "Modus: Entladen"]

(***************************************************************************)
(* The application                                                         *)
(***************************************************************************)
\* the values each widget is moved to: a sample of R-slider (100..10000 step
\* 100), of C-slider (1..1000 step 1), of U0-slider (1.0..12.0 step 0.5)
RSliderValues == {100, 1000, 2000, 5000, 10000}

CSliderValues == {1, 20, 100, 1000}

U0SliderValues == {RInt(1), RInt(5), RInt(12)}

\* the arguments of calls of update_graphs that need not come from the widgets
RValues == {0, 1, 100, 1000, 2000, 10000}

CValues == {0, 1, 2, 100, 1000}

U0Values == {RZero, Rat(1, 2), RInt(5)}

NoCall == [raised |-> "not called"]

Arguments(R, C, U0, m) == [R_ohm |-> R, C_micro_f |-> C, U0 |-> U0, mode_is_charge |-> m]

NoArguments == Arguments(0, 0, RZero, TRUE)

\* app.layout: the widgets at their initial values, no callback run yet
Init ==
    /\ R_slider = 1000
    /\ C_slider = 100
    /\ U0_slider = RInt(5)
    /\ mode_toggle = TRUE
    /\ args = NoArguments
    /\ out = NoCall
    /\ first = [args |-> NoArguments, out |-> NoCall]
    /\ later = FALSE

\* Dash runs the callback with the values of its four Inputs.  first and
\* later are history: the first invocation, and whether there was another.
Callback(R, C, U0, m) ==
    /\ args' = Arguments(R, C, U0, m)
    /\ out' = update_graphs(R, C, U0, m)
    /\ first' = IF first.out = NoCall THEN [args |-> args', out |-> out'] ELSE first
    /\ later' = (first.out # NoCall)

\* the page is loaded (or loaded again): the widgets are those of app.layout
\* and Dash runs the callback once with their values
PageLoad ==
    /\ R_slider' = 1000
    /\ C_slider' = 100
    /\ U0_slider' = RInt(5)
    /\ mode_toggle' = TRUE
    /\ Callback(R_slider', C_slider', U0_slider', mode_toggle')

SetR(v) ==
    /\ out # NoCall
    /\ v # R_slider
    /\ R_slider' = v
    /\ Callback(v, C_slider, U0_slider, mode_toggle)
    /\ UNCHANGED <<C_slider, U0_slider, mode_toggle>>

SetC(v) ==
    /\ out # NoCall
    /\ v # C_slider
    /\ C_slider' = v
    /\ Callback(R_slider, v, U0_slider, mode_toggle)
    /\ UNCHANGED <<R_slider, U0_slider, mode_toggle>>

SetU0(v) ==
    /\ out # NoCall
    /\ v # U0_slider
    /\ U0_slider' = v
    /\ Callback(R_slider, C_slider, v, mode_toggle)
    /\ UNCHANGED <<R_slider, C_slider, mode_toggle>>

ToggleMode ==
    /\ out # NoCall
    /\ mode_toggle' = ~mode_toggle
    /\ Callback(R_slider, C_slider, U0_slider, mode_toggle')
    /\ UNCHANGED <<R_slider, C_slider, U0_slider>>

Next ==
    \/ PageLoad
    \/ \E v \in RSliderValues : SetR(v)
    \/ \E v \in CSliderValues : SetC(v)
    \/ \E v \in U0SliderValues : SetU0(v)
    \/ ToggleMode

Spec == Init /\ [][Next]_vars

\* update_graphs as a function of its four arguments: any arguments, then
\* one call
InitCall ==
    /\ R_slider = 1000
    /\ C_slider = 100
    /\ U0_slider = RInt(5)
    /\ mode_toggle = TRUE
    /\ args \in {Arguments(R, C, U0, m) :
                    R \in RValues, C \in CValues, U0 \in U0Values, m \in BOOLEAN}
    /\ out = NoCall
    /\ first = [args |-> NoArguments, out |-> NoCall]
    /\ later = FALSE

Call ==
    /\ out = NoCall
    /\ out' = update_graphs(args.R_ohm, args.C_micro_f, args.U0, args.mode_is_charge)
    /\ first' = [args |-> args, out |-> out']
    /\ UNCHANGED <<R_slider, C_slider, U0_slider, mode_toggle, args, later>>

SpecCall == InitCall /\ [][Call]_vars

(***************************************************************************)
(* Properties                                                              *)
(***************************************************************************)
\* the latest invocation returned its five outputs
Returned == out.raised = "none"

\* R > 0 and C > 0
Positive == args.R_ohm > 0 /\ args.C_micro_f > 0

\* R and C_micro as the sliders allow them (U0 is not restricted here)
InSliderRange ==
    /\ args.R_ohm >= 100 /\ args.R_ohm <= 10000
    /\ args.C_micro_f >= 1 /\ args.C_micro_f <= 1000

FiveTau == RMul(RInt(5), out.tau)

IsPos(v) == EVLt(EVConst(RZero), v)

IsNeg(v) == EVLt(v, EVConst(RZero))

Figures == {out.fig_u, out.fig_q, out.fig_i}

\* C1 as stated: for R > 0 and C > 0, t_max >= 5 * tau, and t_max equals the
\* floor 0.01 s only when 5 * tau < 0.01 strictly.
C1_FloorOnlyWhenStrictlyBelow ==
    (Returned /\ Positive) =>
        /\ RLe(FiveTau, out.t_max)
        /\ (out.t_max = Epsilon => RLt(FiveTau, Epsilon))

\* C1 amended: for R > 0 and C > 0, t_max >= 5 * tau, t_max is 5 * tau or the
\* floor, and it equals the floor only when 5 * tau <= 0.01 (at 5 * tau = 0.01
\* the two coincide).
C1_FloorOnlyWhenNotAbove ==
    (Returned /\ Positive) =>
        /\ RLe(FiveTau, out.t_max)
        /\ out.t_max \in {FiveTau, Epsilon}
        /\ (out.t_max = Epsilon => RLe(FiveTau, Epsilon))

\* the floor applies: 5 * tau is strictly below it
C1_Witness ==
    Returned /\ Positive /\ RLt(FiveTau, Epsilon) /\ out.t_max = Epsilon

\* C2: for every setting of the sliders all three diagrams run from t = 0 to
\* t = 5 * tau: the first plotted time is 0, the last is 5 * R * C (in ms).
C2_WindowIsFiveTau ==
    (Returned /\ args.R_ohm = R_slider /\ args.C_micro_f = C_slider) =>
        \A f \in Figures :
            /\ f.x[1] = RZero
            /\ f.x[N] = RMul(RInt(5000), Tau(R_slider, Farad(C_slider)))

C4_InitialVoltage ==
    (Returned /\ Positive) =>
        /\ out.tau = Rat(args.R_ohm * args.C_micro_f, 1000000)
        /\ RLt(RZero, out.tau)
        /\ out.t[1] = RZero
        /\ out.Uc[1] = IF args.mode_is_charge THEN EVConst(RZero) ELSE EVConst(args.U0)

\* a discharging run with U0 > 0 that starts at U0
C4_Witness ==
    /\ Returned /\ Positive /\ ~args.mode_is_charge
    /\ RLt(RZero, args.U0)
    /\ out.Uc[1] = EVConst(args.U0)

\* the current of the latest run: strictly positive and strictly decreasing
\* when charging, strictly negative and strictly increasing when discharging
CurrentDecays ==
    IF args.mode_is_charge
    THEN /\ \A i \in 1..N : IsPos(out.I[i])
         /\ \A i \in 1..(N - 1) : EVLt(out.I[i + 1], out.I[i])
    ELSE /\ \A i \in 1..N : IsNeg(out.I[i])
         /\ \A i \in 1..(N - 1) : EVLt(out.I[i], out.I[i + 1])

C6_ChargeIsCTimesVoltage ==
    (Returned /\ Positive) =>
        /\ out.C = Rat(args.C_micro_f, 1000000)
        /\ \A i \in 1..N : out.Q[i] = EVScale(out.C, out.Uc[i])

\* a discharging run with U0 > 0: the charge starts at C * U0 and is not
\* constant
C6_Witness ==
    /\ Returned /\ Positive /\ ~args.mode_is_charge /\ RLt(RZero, args.U0)
    /\ out.Q[1] = EVConst(RMul(out.C, args.U0))
    /\ out.Q[N] # out.Q[1]

\* C7: for R > 0 and C > 0 (so for every value the widgets allow)
\* update_graphs returns its outputs and raises nothing: tau > 0 and R > 0
\* at the two divisions, and the window has positive width.
C7_NoException ==
    (out.raised # "not called" /\ Positive) =>
        /\ Returned
        /\ RLt(RZero, out.tau)
        /\ RLt(RZero, out.t_max)
        /\ RLt(out.t[1], out.t[N])
        /\ \A i \in 1..N : ~out.Uc[i].nan /\ ~out.Q[i].nan /\ ~out.I[i].nan

\* a run with arguments the widgets allow has returned
C7_Witness ==
    /\ Returned /\ InSliderRange /\ args.U0 = RInt(5)
    /\ out.mode_text \in {"Modus: Laden", "Modus: Entladen"}

\* C8: the grid has exactly N = 500 points whatever the parameters, evenly
\* spaced with step t_max / 499 and strictly increasing, from t = 0 to
\* t = t_max; time, voltage, charge and current have this same length.
C8_SampleGrid ==
    Returned =>
        /\ Len(out.t) = 500
        /\ out.t[1] = RZero
        /\ out.t[Len(out.t)] = out.t_max
        /\ \A i \in 1..(Len(out.t) - 1) :
            /\ RSub(out.t[i + 1], out.t[i]) = RDiv(out.t_max, RInt(499))
            /\ RLt(out.t[i], out.t[i + 1])
        /\ \A s \in {out.Uc, out.Q, out.I, out.t_ms} : Len(s) = Len(out.t)
        /\ \A f \in Figures : Len(f.x) = Len(out.t) /\ Len(f.y) = Len(out.t)

\* a grid on a window of five time constants, longer than the floor
C8_Witness ==
    /\ Returned /\ Len(out.t) = N
    /\ RLt(Epsilon, out.t_max)
    /\ out.t[2] = RDiv(FiveTau, RInt(N - 1))

\* C9: what is plotted is the SI quantity scaled for display: times and the
\* tau marker in ms (seconds * 1000, so tau_ms * 1000 = R * C_micro), charge
\* in mC, current in mA, voltage unscaled; R = 1000, C_micro = 100, U0 = 5
\* gives tau = 100 ms and I(0) = +5 mA charging, -5 mA discharging.
C9_DisplayUnits ==
    Returned =>
        /\ \A i \in 1..N : out.t_ms[i] = RMul(out.t[i], RInt(1000))
        /\ RMul(out.tau_ms, RInt(1000)) = RInt(args.R_ohm * args.C_micro_f)
        /\ \A f \in Figures : f.x = out.t_ms /\ f.vline = out.tau_ms
        /\ out.fig_u.y = out.Uc
        /\ \A i \in 1..N :
            /\ out.fig_q.y[i] = EVScale(RInt(1000), out.Q[i])
            /\ out.fig_i.y[i] = EVScale(RInt(1000), out.I[i])
        /\ (args.R_ohm = 1000 /\ args.C_micro_f = 100 /\ args.U0 = RInt(5)) =>
            /\ out.tau_ms = RInt(100)
            /\ out.fig_i.y[1] = EVConst(RInt(IF args.mode_is_charge THEN 5 ELSE -5))

\* the concrete scenario, discharging
C9_Witness ==
    /\ Returned
    /\ args = Arguments(1000, 100, RInt(5), FALSE)
    /\ out.fig_i.y[1] = EVConst(RInt(-5))
    /\ out.fig_q.y[1] = EVConst(Rat(1, 2))

\* C10: for R > 0 and C > 0 the dashed tau marker of each figure lies
\* strictly inside the plotted window, 0 < tau_ms < t_max_ms, also when the
\* floor applies.
C10_MarkerInsideWindow ==
    (Returned /\ Positive) =>
        \A f \in Figures :
            /\ RLt(RZero, f.vline)
            /\ RLt(f.vline, f.x[N])
            /\ f.x[N] = RMul(out.t_max, RInt(1000))

\* the marker of a run on a window of exactly five time constants
C10_Witness ==
    /\ Returned /\ Positive
    /\ out.t_max = FiveTau
    /\ out.fig_u.x[N] = RMul(RInt(5), out.fig_u.vline)

====
